---- MODULE Spec2Model ----
(***************************************************************************)
(* Model of the go-i2p common-structures codecs: Certificate               *)
(* (lib/common/certificate) and I2PString (lib/common/data).               *)
(*                                                                         *)
(* Byte slices are sequences of numbers in 0..255.  A nil slice and an     *)
(* empty slice are both << >>.  An error value is the text of its message; *)
(* the nil error is the empty string.  A Go slice expression s[lo:hi] is   *)
(* Slice(s, lo, hi).                                                       *)
(***************************************************************************)
EXTENDS Integers, Sequences, FiniteSets, TLC

VARIABLES
    pc,           \* the call made last ("start" before the first call)
    prev,         \* the call made before that one
    arg,          \* the byte slice (or Go string) handed to the call made last
    origin,       \* the first call of the run and its arguments
    certificate,  \* the Certificate returned by, or the receiver of, the call made last
    wire,         \* the bytes produced by Bytes() or RawBytes()
    remainder,    \* the remainder returned by the reader called last
    err,          \* the error returned by the call made last
    str,          \* the I2PString returned by, or the receiver of, the call made last
    sdata,        \* the string returned by I2PString.Data()
    ret           \* what the call made last on a Signature, LeaseSet or RouterInfo returned

vars == <<pc, prev, arg, origin, certificate, wire, remainder, err, str, sdata, ret>>

----------------------------------------------------------------------------
(* Bounds of the exploration *)

\* longest byte slice handed to a reader or a constructor
MaxLen == 5

\* how far below and above STRING_MAX_SIZE the long ToI2PString inputs go
LongSpan == 1

\* byte values that occur in the explored inputs
ByteVals == {0, 1, 2, 6, 255}

\* certificate types handed to NewCertificateWithType (6 is unknown)
KindVals == {0, 1, 2, 3, 4, 5, 6}

BytesUpTo(n) == UNION {[1..k -> ByteVals] : k \in 0..n}

Inputs == BytesUpTo(MaxLen)

----------------------------------------------------------------------------
(* Program constants *)

CERT_NULL == 0
CERT_HASHCASH == 1
CERT_HIDDEN == 2
CERT_SIGNED == 3
CERT_MULTIPLE == 4
CERT_KEY == 5
CERT_MIN_SIZE == 3
STRING_MAX_SIZE == 255

MIN_INTEGER_SIZE == 1
MAX_INTEGER_SIZE == 8

nil == ""

ErrCertEmpty == "error parsing certificate: certificate is empty"
ErrCertTooShort == "error parsing certificate: certificate is too short"
ErrCertShorter == "certificate parsing warning: certificate data is shorter than specified by length"
ErrCertLonger == "certificate parsing warning: certificate data is longer than specified by length"
ErrCertInvalidType == "invalid certificate type"
ErrCertNullPayload == "NULL certificates must have empty payload"

ErrStrZeroLength == "error parsing string: zero length"
ErrStrShorter == "string parsing warning: string data is shorter than specified by length"
ErrStrBeyond == "string parsing warning: string contains data beyond length"
ErrStrTooMuch == "cannot store that much data in I2P string"
ErrStrEmptySlice == "data slice is empty"
ErrStrExceeds == "I2PString length exceeds available data"
ErrStrMismatch == "error reading I2P string, length does not match data"
ErrIntegerSize == "NewInteger: invalid integer size"
ErrIntegerShort == "NewInteger: data is shorter than the integer size"
ErrIntegerRange == "NewIntegerFromInt: value does not fit the integer size"
PanicNilDeref == "panic: nil pointer dereference"

----------------------------------------------------------------------------
(* Go slices *)

\* s[lo:hi]
Slice(s, lo, hi) == SubSeq(s, lo + 1, hi)

\* s[lo:]
SliceFrom(s, lo) == SubSeq(s, lo + 1, Len(s))

----------------------------------------------------------------------------
(* data.Integer: unsigned big-endian integer of 1 to 8 bytes *)

RECURSIVE Pow256(_)
Pow256(n) == IF n = 0 THEN 1 ELSE 256 * Pow256(n - 1)

\* Integer.Int(): big-endian value of the bytes; no bytes give 0
RECURSIVE IntegerInt(_)
IntegerInt(b) == IF Len(b) = 0 THEN 0 ELSE 256 * IntegerInt(SubSeq(b, 1, Len(b) - 1)) + b[Len(b)]

\* Integer.Bytes()
IntegerBytes(i) == i

\* NewInteger(bytes, size): the first size bytes as an Integer, and the rest
NewInteger(bytes, size) ==
    IF size < MIN_INTEGER_SIZE \/ size > MAX_INTEGER_SIZE
    THEN [integer |-> << >>, remainder |-> << >>, err |-> ErrIntegerSize]
    ELSE IF Len(bytes) < size
    THEN [integer |-> << >>, remainder |-> << >>, err |-> ErrIntegerShort]
    ELSE [integer |-> Slice(bytes, 0, size), remainder |-> SliceFrom(bytes, size), err |-> nil]

\* the size-byte big-endian form of value
RECURSIVE BigEndian(_, _)
BigEndian(value, size) ==
    IF size = 0 THEN << >> ELSE Append(BigEndian(value \div 256, size - 1), value % 256)

\* NewIntegerFromInt(value, size): fails when the value needs more than size bytes
NewIntegerFromInt(value, size) ==
    IF size < MIN_INTEGER_SIZE \/ size > MAX_INTEGER_SIZE
    THEN [integer |-> << >>, ok |-> FALSE, err |-> ErrIntegerSize]
    ELSE IF value >= Pow256(size)
    THEN [integer |-> << >>, ok |-> FALSE, err |-> ErrIntegerRange]
    ELSE [integer |-> BigEndian(value, size), ok |-> TRUE, err |-> nil]

----------------------------------------------------------------------------
(* certificate.Certificate *)

\* the zero value Certificate{}
ZeroCertificate == [kind |-> << >>, len |-> << >>, payload |-> << >>]

\* Certificate.Type()
CertificateType(c) == IntegerInt(c.kind)

\* Certificate.Length()
CertificateLength(c) == IntegerInt(c.len)

\* Certificate.Data(): the payload trimmed to the declared length
CertificateData(c) ==
    IF CertificateLength(c) > Len(c.payload) THEN c.payload ELSE Slice(c.payload, 0, CertificateLength(c))

\* Certificate.RawBytes(): kind, length and the whole payload
CertificateRawBytes(c) == IntegerBytes(c.kind) \o IntegerBytes(c.len) \o c.payload

\* ExcessBytes() that forgets to skip the declared payload
ExcessBytesUnsliced(c) ==
    IF Len(c.payload) >= IntegerInt(c.len) THEN c.payload ELSE << >>

\* Certificate.ExcessBytes(): the payload bytes after the declared length
CertificateExcessBytes(c) ==
    IF Len(c.payload) >= IntegerInt(c.len) THEN SliceFrom(c.payload, IntegerInt(c.len)) ELSE << >>

\* Certificate.Bytes(): kind, length and the trimmed payload
CertificateBytes(c) == IntegerBytes(c.kind) \o IntegerBytes(c.len) \o CertificateData(c)

\* readCertificate(data) that also rejects a payload of exactly the declared length
readCertificateOffByOne(data) ==
    CASE Len(data) = 0 ->
           [certificate |-> [kind |-> <<0>>, len |-> <<0>>, payload |-> << >>],
            err |-> ErrCertEmpty]
      [] Len(data) \in {1, 2} ->
           [certificate |-> [kind |-> Slice(data, 0, Len(data) - 1), len |-> <<0>>,
                             payload |-> << >>],
            err |-> ErrCertTooShort]
      [] OTHER ->
           LET c == [kind |-> Slice(data, 0, 1), len |-> Slice(data, 1, 3),
                     payload |-> SliceFrom(data, CERT_MIN_SIZE)]
           IN  IF IntegerInt(c.len) >= Len(data) - CERT_MIN_SIZE
               THEN [certificate |-> c, err |-> ErrCertShorter]
               ELSE [certificate |-> c, err |-> nil]

\* readCertificate(data)
readCertificate(data) ==
    CASE Len(data) = 0 ->
           [certificate |-> [kind |-> <<0>>, len |-> <<0>>, payload |-> << >>],
            err |-> ErrCertEmpty]
      [] Len(data) \in {1, 2} ->
           [certificate |-> [kind |-> Slice(data, 0, Len(data) - 1), len |-> <<0>>,
                             payload |-> << >>],
            err |-> ErrCertTooShort]
      [] OTHER ->
           LET c == [kind |-> Slice(data, 0, 1), len |-> Slice(data, 1, 3),
                     payload |-> SliceFrom(data, CERT_MIN_SIZE)]
           IN  IF IntegerInt(c.len) > Len(data) - CERT_MIN_SIZE
               THEN [certificate |-> c, err |-> ErrCertShorter]
               ELSE [certificate |-> c, err |-> nil]

\* ReadCertificate(data)
ReadCertificate(data) ==
    LET r == readCertificate(data)
    IN  [certificate |-> r.certificate,
         remainder |-> CertificateExcessBytes(r.certificate),
         err |-> IF r.err # nil /\ r.err = ErrCertLonger THEN nil ELSE r.err]

\* NewCertificate(): the NULL certificate, whose len is the Integer of the one
\* byte 0
NewCertificate == [kind |-> <<CERT_NULL>>, len |-> <<0>>, payload |-> << >>]

\* NewCertificateWithType(certType, payload) that writes the length as one byte
NewCertificateWithTypeOneByteLen(certType, payload) ==
    IF certType \notin {CERT_NULL, CERT_HASHCASH, CERT_HIDDEN, CERT_SIGNED, CERT_MULTIPLE, CERT_KEY}
    THEN [certificate |-> ZeroCertificate, ok |-> FALSE, err |-> ErrCertInvalidType]
    ELSE IF certType = CERT_NULL /\ Len(payload) > 0
    THEN [certificate |-> ZeroCertificate, ok |-> FALSE, err |-> ErrCertNullPayload]
    ELSE LET length == NewIntegerFromInt(Len(payload), 1)
         IN  IF ~length.ok
             THEN [certificate |-> ZeroCertificate, ok |-> FALSE, err |-> PanicNilDeref]
             ELSE [certificate |-> [kind |-> <<certType>>, len |-> length.integer,
                                    payload |-> payload],
                   ok |-> TRUE, err |-> nil]

\* NewCertificateWithType(certType, payload); ok is FALSE for a nil *Certificate
NewCertificateWithType(certType, payload) ==
    IF certType \notin {CERT_NULL, CERT_HASHCASH, CERT_HIDDEN, CERT_SIGNED, CERT_MULTIPLE, CERT_KEY}
    THEN [certificate |-> ZeroCertificate, ok |-> FALSE, err |-> ErrCertInvalidType]
    ELSE IF certType = CERT_NULL /\ Len(payload) > 0
    THEN [certificate |-> ZeroCertificate, ok |-> FALSE, err |-> ErrCertNullPayload]
    ELSE LET length == NewIntegerFromInt(Len(payload), 2)
         IN  IF ~length.ok
             THEN [certificate |-> ZeroCertificate, ok |-> FALSE, err |-> PanicNilDeref]
             ELSE [certificate |-> [kind |-> <<certType>>, len |-> length.integer,
                                    payload |-> payload],
                   ok |-> TRUE, err |-> nil]

----------------------------------------------------------------------------
(* data.I2PString *)

\* I2PString.Length(): the length byte, and an error when it disagrees with the data
I2PStringLength(s) ==
    IF Len(s) = 0
    THEN [length |-> 0, err |-> ErrStrZeroLength]
    ELSE LET l == NewInteger(s, 1)
         IN  IF l.err # nil
             THEN [length |-> IntegerInt(l.integer), err |-> l.err]
             ELSE LET length == IntegerInt(l.integer)
                      str_len == Len(s)
                  IN  [length |-> length,
                       err |-> IF (str_len - 1) > length THEN ErrStrBeyond
                               ELSE IF length > (str_len - 1) THEN ErrStrShorter
                               ELSE nil]

\* ToI2PString(data) that refuses a string of exactly STRING_MAX_SIZE bytes
ToI2PStringOffByOne(data) ==
    LET data_len == Len(data)
    IN  IF data_len >= STRING_MAX_SIZE
        THEN [str |-> << >>, err |-> ErrStrTooMuch]
        ELSE [str |-> <<data_len % 256>> \o data, err |-> nil]

\* ToI2PString(data): the length byte followed by the bytes of data
ToI2PString(data) ==
    LET data_len == Len(data)
    IN  IF data_len > STRING_MAX_SIZE
        THEN [str |-> << >>, err |-> ErrStrTooMuch]
        ELSE [str |-> <<data_len % 256>> \o data, err |-> nil]

\* I2PString.Data()
RECURSIVE I2PStringData(_)
I2PStringData(s) ==
    LET l == I2PStringLength(s)
        tail == IF l.length = 0
                THEN [data |-> << >>, err |-> l.err]
                ELSE [data |-> Slice(s, 1, l.length + 1), err |-> l.err]
    IN  CASE l.err = ErrStrZeroLength -> [data |-> << >>, err |-> l.err]
          [] l.err = ErrStrShorter ->
               LET is == ToI2PString(s)
               IN  IF is.err # nil
                   THEN [data |-> << >>, err |-> is.err]
                   ELSE I2PStringData(is.str)
          [] l.err = ErrStrBeyond -> [data |-> SliceFrom(s, 1), err |-> l.err]
          [] OTHER -> tail

\* ReadI2PString(data) that leaves the length byte out of the total length
ReadI2PStringNoLengthByte(data) ==
    IF Len(data) = 0
    THEN [str |-> << >>, remainder |-> << >>, err |-> ErrStrEmptySlice]
    ELSE LET length == NewInteger(data, 1)
         IN  IF length.err # nil
             THEN [str |-> << >>, remainder |-> << >>, err |-> length.err]
             ELSE LET data_len == IntegerInt(length.integer)
                  IN  IF data_len > Len(data)
                      THEN [str |-> << >>, remainder |-> << >>, err |-> ErrStrExceeds]
                      ELSE LET s == Slice(data, 0, data_len)
                               l == I2PStringLength(s)
                           IN  [str |-> s,
                                remainder |-> SliceFrom(data, data_len),
                                err |-> IF l.length # data_len - 1
                                        THEN ErrStrMismatch ELSE l.err]

\* ReadI2PString(data)
ReadI2PString(data) ==
    IF Len(data) = 0
    THEN [str |-> << >>, remainder |-> << >>, err |-> ErrStrEmptySlice]
    ELSE LET length == NewInteger(data, 1)
         IN  IF length.err # nil
             THEN [str |-> << >>, remainder |-> << >>, err |-> length.err]
             ELSE LET data_len == IntegerInt(length.integer) + 1
                  IN  IF data_len > Len(data)
                      THEN [str |-> << >>, remainder |-> << >>, err |-> ErrStrExceeds]
                      ELSE LET s == Slice(data, 0, data_len)
                               l == I2PStringLength(s)
                           IN  [str |-> s,
                                remainder |-> SliceFrom(data, data_len),
                                err |-> IF l.length # data_len - 1
                                        THEN ErrStrMismatch ELSE l.err]

----------------------------------------------------------------------------
(* The calls.  A run starts with one call on the chosen input and goes on   *)
(* with calls on the values that call returned.                             *)

\* Go strings of STRING_MAX_SIZE bytes, and a few bytes fewer and more
LongStrings ==
    {[i \in 1..n |-> 1] : n \in (STRING_MAX_SIZE - LongSpan)..(STRING_MAX_SIZE + LongSpan)}

Init ==
    /\ pc = "start"
    /\ prev = "start"
    /\ arg \in Inputs \cup LongStrings
    /\ origin = [op |-> "start", certType |-> 0, data |-> arg]
    /\ certificate = ZeroCertificate
    /\ wire = << >>
    /\ remainder = << >>
    /\ err = nil
    /\ str = << >>
    /\ sdata = << >>
    /\ ret = << >>

\* certificate, remainder, err = ReadCertificate(arg), on the input or on
\* the bytes Bytes() or RawBytes() produced
CallReadCertificate ==
    /\ pc \in {"start", "Bytes", "RawBytes"}
    /\ LET d == IF pc = "start" THEN arg ELSE wire
           r == ReadCertificate(d)
       IN  /\ arg' = d
           /\ origin' = IF pc = "start" THEN [origin EXCEPT !.op = "ReadCertificate"] ELSE origin
           /\ certificate' = r.certificate
           /\ remainder' = r.remainder
           /\ err' = r.err
    /\ pc' = "ReadCertificate"
    /\ prev' = pc
    /\ UNCHANGED <<wire, str, sdata, ret>>

\* certificate, err = NewCertificateWithType(certType, arg)
CallNewCertificateWithType ==
    /\ pc = "start"
    /\ \E certType \in KindVals :
         LET r == NewCertificateWithType(certType, arg)
         IN  /\ origin' = [origin EXCEPT !.op = "NewCertificateWithType", !.certType = certType]
             /\ certificate' = r.certificate
             /\ err' = r.err
    /\ pc' = "NewCertificateWithType"
    /\ prev' = pc
    /\ UNCHANGED <<arg, wire, remainder, str, sdata, ret>>

\* certificate = NewCertificate()
CallNewCertificate ==
    /\ pc = "start"
    /\ certificate' = NewCertificate
    /\ origin' = [origin EXCEPT !.op = "NewCertificate"]
    /\ pc' = "NewCertificate"
    /\ prev' = pc
    /\ UNCHANGED <<arg, wire, remainder, err, str, sdata, ret>>

\* wire = certificate.Bytes()
CallBytes ==
    /\ \/ pc = "ReadCertificate"
       \/ pc = "NewCertificateWithType" /\ err = nil
       \/ pc = "NewCertificate"
    /\ wire' = CertificateBytes(certificate)
    /\ pc' = "Bytes"
    /\ prev' = pc
    /\ UNCHANGED <<arg, origin, certificate, remainder, err, str, sdata, ret>>

\* wire = certificate.RawBytes()
CallRawBytes ==
    /\ \/ pc = "ReadCertificate"
       \/ pc = "NewCertificateWithType" /\ err = nil
       \/ pc = "NewCertificate"
    /\ wire' = CertificateRawBytes(certificate)
    /\ pc' = "RawBytes"
    /\ prev' = pc
    /\ UNCHANGED <<arg, origin, certificate, remainder, err, str, sdata, ret>>

\* str, remainder, err = ReadI2PString(arg), on the input or on the
\* I2PString ToI2PString returned
CallReadI2PString ==
    /\ \/ pc = "start"
       \/ pc = "ToI2PString" /\ err = nil
    /\ LET d == IF pc = "start" THEN arg ELSE str
           r == ReadI2PString(d)
       IN  /\ arg' = d
           /\ origin' = IF pc = "start" THEN [origin EXCEPT !.op = "ReadI2PString"] ELSE origin
           /\ str' = r.str
           /\ remainder' = r.remainder
           /\ err' = r.err
    /\ pc' = "ReadI2PString"
    /\ prev' = pc
    /\ UNCHANGED <<certificate, wire, sdata, ret>>

\* str, err = ToI2PString(arg)
CallToI2PString ==
    /\ pc = "start"
    /\ LET r == ToI2PString(arg)
       IN  /\ str' = r.str
           /\ err' = r.err
    /\ origin' = [origin EXCEPT !.op = "ToI2PString"]
    /\ pc' = "ToI2PString"
    /\ prev' = pc
    /\ UNCHANGED <<arg, certificate, wire, remainder, sdata, ret>>

\* sdata, err = I2PString(arg).Data() on the input, or str.Data() on the
\* I2PString a call returned
CallData ==
    /\ \/ pc = "start"
       \/ pc \in {"ToI2PString", "ReadI2PString"} /\ err = nil
    /\ LET s == IF pc = "start" THEN arg ELSE str
           r == I2PStringData(s)
       IN  /\ str' = s
           /\ sdata' = r.data
           /\ err' = r.err
    /\ origin' = IF pc = "start" THEN [origin EXCEPT !.op = "Data"] ELSE origin
    /\ pc' = "Data"
    /\ prev' = pc
    /\ UNCHANGED <<arg, certificate, wire, remainder, ret>>

Next ==
    \/ CallReadCertificate
    \/ CallNewCertificate
    \/ CallNewCertificateWithType
    \/ CallBytes
    \/ CallRawBytes
    \/ CallReadI2PString
    \/ CallToI2PString
    \/ CallData

Spec == Init /\ [][Next]_vars

----------------------------------------------------------------------------
(* Properties of the Certificate codec *)

\* the payload length an input of at least 3 bytes declares in bytes 1..2
DeclaredLength(d) == 256 * d[2] + d[3]

\* the input declares a payload that it holds in full
WellFormedCert(d) == Len(d) >= 3 /\ DeclaredLength(d) <= Len(d) - 3

IsPrefix(p, s) == Len(p) <= Len(s) /\ p = SubSeq(s, 1, Len(p))

C2_ParsesWellFormed ==
    /\ (pc = "ReadCertificate" /\ WellFormedCert(arg)) =>
          LET L == DeclaredLength(arg)
          IN  /\ err = nil
              /\ CertificateType(certificate) = arg[1]
              /\ CertificateLength(certificate) = L
              /\ CertificateData(certificate) = SubSeq(arg, 4, 3 + L)
              /\ remainder = SubSeq(arg, 4 + L, Len(arg))
    /\ (pc = "Bytes" /\ prev = "ReadCertificate" /\ WellFormedCert(arg)) =>
          wire \o remainder = arg
    /\ (pc = "RawBytes" /\ prev = "ReadCertificate" /\ WellFormedCert(arg)) =>
          wire = arg

\* Bytes() was taken of a certificate parsed from an input with payload and excess
C2_Witness ==
    /\ pc = "Bytes"
    /\ prev = "ReadCertificate"
    /\ WellFormedCert(arg)
    /\ DeclaredLength(arg) > 0
    /\ remainder # << >>
    /\ wire \o remainder = arg

\* the round trip of NewCertificateWithType(origin.certType, origin.data)
\* through Bytes() and ReadCertificate gave the certificate back
RoundTripped ==
    /\ err = nil
    /\ CertificateType(certificate) = origin.certType
    /\ CertificateLength(certificate) = Len(origin.data)
    /\ CertificateData(certificate) = origin.data
    /\ remainder = << >>

\* the state after NewCertificateWithType, Bytes() and ReadCertificate of those bytes
AfterRoundTrip ==
    /\ pc = "ReadCertificate"
    /\ prev = "Bytes"
    /\ origin.op = "NewCertificateWithType"

\* C3 as stated: for every kind in [0,5] and every payload shorter than 65536
\* bytes NewCertificateWithType yields a certificate, and ReadCertificate of
\* its Bytes() returns the same kind, length and payload and no remainder.
C3_AsStated ==
    /\ (pc = "NewCertificateWithType" /\ origin.certType \in 0..5 /\ Len(arg) < 65536) =>
          err = nil
    /\ AfterRoundTrip => RoundTripped

\* C3: for every kind in [1,5] with any payload shorter than 65536 bytes, and
\* for kind 0 with the empty payload, NewCertificateWithType yields a
\* certificate whose Bytes() ReadCertificate parses to the same kind, length
\* and payload with an empty remainder; for kind 0 with a non-empty payload
\* it returns an error and no certificate.
C3_RoundTrip ==
    /\ (pc = "NewCertificateWithType" /\ Len(arg) < 65536) =>
          /\ (origin.certType \in 1..5 \/ (origin.certType = 0 /\ arg = << >>)) =>
                /\ err = nil
                /\ certificate = [kind |-> <<origin.certType>>,
                                  len |-> <<Len(arg) \div 256, Len(arg) % 256>>,
                                  payload |-> arg]
          /\ (origin.certType = 0 /\ arg # << >>) =>
                err # nil /\ certificate = ZeroCertificate
    /\ AfterRoundTrip => RoundTripped

\* a KEY certificate with a payload of two or more bytes went round
C3_Witness ==
    /\ AfterRoundTrip
    /\ origin.certType = CERT_KEY
    /\ Len(origin.data) >= 2
    /\ RoundTripped

\* C4: ReadCertificate returns an error for every input whose kind byte is
\* not one of 0..5, also when length and payload are well-formed.
C4_UnknownKindRefused ==
    (pc = "ReadCertificate" /\ Len(arg) >= 1 /\ arg[1] \notin 0..5) => err # nil

\* C5: when the input carries bytes after the declared payload,
\* ReadCertificate returns the certificate, the excess as remainder, and an
\* error value that tells the result from a clean parse.
C5_ExcessIsWarned ==
    (pc = "ReadCertificate" /\ Len(arg) >= 3 /\ DeclaredLength(arg) < Len(arg) - 3) =>
        /\ CertificateData(certificate) = SubSeq(arg, 4, 3 + DeclaredLength(arg))
        /\ remainder = SubSeq(arg, 4 + DeclaredLength(arg), Len(arg))
        /\ err # nil

----------------------------------------------------------------------------
(* Properties of the I2PString codec *)

\* C6: for a non-empty input whose first byte L is at most len(input)-1,
\* ReadI2PString returns no error, the first L+1 bytes as the string and the
\* bytes after them as the remainder; for the empty input it returns an
\* error and no string.
C6_ReadsString ==
    pc = "ReadI2PString" =>
        /\ (Len(arg) >= 1 /\ arg[1] <= Len(arg) - 1) =>
              /\ err = nil
              /\ str = SubSeq(arg, 1, arg[1] + 1)
              /\ Len(str) = 1 + str[1]
              /\ remainder = SubSeq(arg, arg[1] + 2, Len(arg))
              /\ str \o remainder = arg
        /\ (Len(arg) = 0) => (err # nil /\ str = << >>)

\* a string with payload was read and bytes were left over
C6_Witness ==
    /\ pc = "ReadI2PString"
    /\ prev = "start"
    /\ err = nil
    /\ Len(str) >= 2
    /\ remainder # << >>

\* C7: when the length byte L exceeds the available data (len(src)-1 < L),
\* ReadI2PString returns the input as the string, an empty remainder and a
\* warning error.
C7_ShortDataRecoverable ==
    (pc = "ReadI2PString" /\ Len(arg) >= 1 /\ Len(arg) - 1 < arg[1]) =>
        /\ str = arg
        /\ remainder = << >>
        /\ err # nil

\* C8: ToI2PString(s) fails iff len(s) > 255; otherwise it returns the byte
\* len(s) followed by s, ReadI2PString of that returns it unchanged with an
\* empty remainder and no error, and Data() of it returns s with no error.
C8_StringRoundTrip ==
    /\ pc = "ToI2PString" =>
          /\ (err # nil) <=> (Len(arg) > 255)
          /\ (Len(arg) <= 255) => str = <<Len(arg)>> \o arg
    /\ (pc = "ReadI2PString" /\ prev = "ToI2PString") =>
          /\ str = arg
          /\ str = <<Len(origin.data)>> \o origin.data
          /\ remainder = << >>
          /\ err = nil
    /\ (pc = "Data" /\ origin.op = "ToI2PString") =>
          /\ sdata = origin.data
          /\ err = nil

\* a string of exactly 255 bytes was converted, read back and its Data() taken
C8_Witness ==
    /\ pc = "Data"
    /\ prev = "ReadI2PString"
    /\ origin.op = "ToI2PString"
    /\ Len(origin.data) = 255
    /\ sdata = origin.data

\* C9: for every non-empty I2PString, Data() returns only payload bytes
\* within the declared length: nothing of the length byte and nothing
\* located after position 1+L.
C9_DataTrimmed ==
    (pc = "Data" /\ Len(str) >= 1) =>
        LET last == IF 1 + str[1] < Len(str) THEN 1 + str[1] ELSE Len(str)
        IN  IsPrefix(sdata, SubSeq(str, 2, last))

\* C10: whenever Length() reports an error on an I2PString, Data() returns
\* an error too.
C10_DataReturnsLengthError ==
    (pc = "Data" /\ I2PStringLength(str).err # nil) => err # nil

----------------------------------------------------------------------------
(* signature.Signature *)

DSA_SHA1_SIZE == 40
ECDSA_SHA256_P256_SIZE == 64
ECDSA_SHA384_P384_SIZE == 96
ECDSA_SHA512_P512_SIZE == 132
RSA_SHA256_2048_SIZE == 256
RSA_SHA384_3072_SIZE == 384
RSA_SHA512_4096_SIZE == 512
EdDSA_SHA512_Ed25519_SIZE == 64
EdDSA_SHA512_Ed25519ph_SIZE == 64
RedDSA_SHA512_Ed25519_SIZE == 64

ErrSigInsufficient == "insufficient data to read signature"

\* ReadSignature(data): the first DSA_SHA1_SIZE bytes and the rest
ReadSignature(data) ==
    LET sigLength == DSA_SHA1_SIZE
    IN  IF Len(data) < sigLength
        THEN [sig |-> << >>, remainder |-> << >>, err |-> ErrSigInsufficient]
        ELSE [sig |-> Slice(data, 0, sigLength), remainder |-> SliceFrom(data, sigLength),
              err |-> nil]

\* NewSignature(data); ok is FALSE for a nil *Signature
NewSignature(data) ==
    LET r == ReadSignature(data)
    IN  IF r.err # nil
        THEN [signature |-> << >>, ok |-> FALSE, remainder |-> r.remainder, err |-> r.err]
        ELSE [signature |-> r.sig, ok |-> TRUE, remainder |-> r.remainder, err |-> nil]

\* the start of every run: nothing called yet, input is the slice to read
Start(input) ==
    /\ pc = "start"
    /\ prev = "start"
    /\ arg = input
    /\ origin = [op |-> "start", certType |-> 0, data |-> input]
    /\ certificate = ZeroCertificate
    /\ wire = << >>
    /\ remainder = << >>
    /\ err = nil
    /\ str = << >>
    /\ sdata = << >>
    /\ ret = << >>

\* longest slice handed to ReadSignature
MaxSigInput == 70

\* the signature widths a caller may expect from the key type in its context
SigSizes == {DSA_SHA1_SIZE, EdDSA_SHA512_Ed25519_SIZE, ECDSA_SHA384_P384_SIZE}

\* the slice of k bytes whose i-th byte (from 0) is (first + i) mod 256
Ramp(first, k) == [i \in 1..k |-> (first + i - 1) % 256]

SigInputs == {Ramp(f, k) : f \in {0, 200}, k \in 0..MaxSigInput}

InitSig == \E input \in SigInputs : Start(input)

\* sig, remainder, err = ReadSignature(arg) by a caller whose context
\* expects a signature of ret.expected bytes
CallReadSignature ==
    /\ pc = "start"
    /\ \E expected \in SigSizes :
         LET r == ReadSignature(arg)
         IN  /\ ret' = [expected |-> expected, sig |-> r.sig]
             /\ remainder' = r.remainder
             /\ err' = r.err
    /\ pc' = "ReadSignature"
    /\ prev' = pc
    /\ origin' = [origin EXCEPT !.op = "ReadSignature"]
    /\ UNCHANGED <<arg, certificate, wire, str, sdata>>

\* signature, remainder, err = NewSignature(arg)
CallNewSignature ==
    /\ pc = "start"
    /\ LET r == NewSignature(arg)
       IN  /\ ret' = [ok |-> r.ok, sig |-> r.signature]
           /\ remainder' = r.remainder
           /\ err' = r.err
    /\ pc' = "NewSignature"
    /\ prev' = pc
    /\ origin' = [origin EXCEPT !.op = "NewSignature"]
    /\ UNCHANGED <<arg, certificate, wire, str, sdata>>

NextSig ==
    \/ CallReadSignature
    \/ CallNewSignature

SpecSig == InitSig /\ [][NextSig]_vars

\* C11: ReadSignature reads a signature of the length n its caller expects:
\* it succeeds iff len(src) >= n and then returns (src[0..n], src[n..]).
C11_ReadsExpectedLength ==
    pc = "ReadSignature" =>
        /\ (err = nil) <=> (Len(arg) >= ret.expected)
        /\ (err = nil) =>
              /\ ret.sig = SubSeq(arg, 1, ret.expected)
              /\ remainder = SubSeq(arg, ret.expected + 1, Len(arg))

----------------------------------------------------------------------------
(* keys_and_cert.KeysAndCert, destination.Destination, key_certificate,    *)
(* lease.Lease and data.Date, as far as LeaseSet and RouterInfo use them   *)

KEYS_AND_CERT_PUBKEY_SIZE == 256
KEYS_AND_CERT_SPK_SIZE == 128
KEYS_AND_CERT_DATA_SIZE == 384
KEYS_AND_CERT_MIN_SIZE == 387
LEASE_SIZE == 44
LEASE_HASH_SIZE == 32
LEASE_TUNNEL_ID_SIZE == 4
DATE_SIZE == 8

KEYCERT_SIGN_DSA_SHA1 == 0
KEYCERT_SIGN_P256 == 1
KEYCERT_SIGN_P384 == 2
KEYCERT_SIGN_P521 == 3
KEYCERT_SIGN_RSA2048 == 4
KEYCERT_SIGN_RSA3072 == 5
KEYCERT_SIGN_RSA4096 == 6
KEYCERT_SIGN_ED25519 == 7
KEYCERT_SIGN_REDDSA_ED25519 == 11

ErrKeysAndCertShort == "error parsing KeysAndCert: data is smaller than minimum valid size"
ErrKeyTooShort == "error constructing signing public key: not enough data"
ErrDateShort == "ReadDate: data is too short"

\* the element of a one-element set; in  Only({ e : v \in {x} })  the value of
\* x is computed once and held in v, like  v, err := x  before the code e
Only(S) == CHOOSE r \in S : TRUE

\* ReadKeysAndCert(data): the 384 key bytes and the Certificate that starts
\* at byte 384; the remainder is what follows the certificate's payload
ReadKeysAndCert(data) ==
    IF Len(data) < KEYS_AND_CERT_MIN_SIZE
    THEN [keys_and_cert |-> [keys |-> << >>, cert |-> ZeroCertificate],
          remainder |-> << >>, err |-> ErrKeysAndCertShort]
    ELSE Only({ IF c.err # nil
                THEN [keys_and_cert |-> [keys |-> << >>, cert |-> ZeroCertificate],
                      remainder |-> << >>, err |-> c.err]
                ELSE [keys_and_cert |-> [keys |-> Slice(data, 0, KEYS_AND_CERT_DATA_SIZE),
                                         cert |-> c.certificate],
                      remainder |-> c.remainder, err |-> nil]
                : c \in {ReadCertificate(SliceFrom(data, KEYS_AND_CERT_DATA_SIZE))} })

\* KeysAndCert.Bytes(): the key bytes and the certificate
KeysAndCertBytes(kac) == kac.keys \o CertificateBytes(kac.cert)

\* ReadDestination(data): a Destination is a KeysAndCert
ReadDestination(data) ==
    LET r == ReadKeysAndCert(data)
    IN  [destination |-> r.keys_and_cert, remainder |-> r.remainder, err |-> r.err]

\* Destination.Bytes()
DestinationBytes(d) == KeysAndCertBytes(d)

\* Destination.Certificate()
DestinationCertificate(d) == d.cert

\* KeyCertificateFromCertificate(cert): the signing type in payload[0..2)
KeyCertificateFromCertificate(cert) ==
    [cert |-> cert, spkType |-> IntegerInt(Slice(CertificateData(cert), 0, 2))]

\* the signing-key table: signing public key size by signing type
SigningPublicKeySize(spkType) ==
    CASE spkType = KEYCERT_SIGN_DSA_SHA1 -> 128
      [] spkType = KEYCERT_SIGN_P256 -> 64
      [] spkType = KEYCERT_SIGN_P384 -> 96
      [] spkType = KEYCERT_SIGN_P521 -> 132
      [] spkType = KEYCERT_SIGN_RSA2048 -> 256
      [] spkType = KEYCERT_SIGN_RSA3072 -> 384
      [] spkType = KEYCERT_SIGN_RSA4096 -> 512
      [] spkType = KEYCERT_SIGN_ED25519 -> 32
      [] spkType = KEYCERT_SIGN_REDDSA_ED25519 -> 32
      [] OTHER -> 0

\* KeyCertificate.SignatureSize(): signature size by signing type
SignatureSize(kc) ==
    CASE kc.spkType = KEYCERT_SIGN_DSA_SHA1 -> DSA_SHA1_SIZE
      [] kc.spkType = KEYCERT_SIGN_P256 -> ECDSA_SHA256_P256_SIZE
      [] kc.spkType = KEYCERT_SIGN_P384 -> ECDSA_SHA384_P384_SIZE
      [] kc.spkType = KEYCERT_SIGN_P521 -> ECDSA_SHA512_P512_SIZE
      [] kc.spkType = KEYCERT_SIGN_RSA2048 -> RSA_SHA256_2048_SIZE
      [] kc.spkType = KEYCERT_SIGN_RSA3072 -> RSA_SHA384_3072_SIZE
      [] kc.spkType = KEYCERT_SIGN_RSA4096 -> RSA_SHA512_4096_SIZE
      [] kc.spkType = KEYCERT_SIGN_ED25519 -> EdDSA_SHA512_Ed25519_SIZE
      [] kc.spkType = KEYCERT_SIGN_REDDSA_ED25519 -> RedDSA_SHA512_Ed25519_SIZE
      [] OTHER -> 0

\* KeyCertificate.ConstructSigningPublicKey(data): a key of the declared
\* type and size from the bytes supplied; the key ends where the slot ends,
\* so a key wider than the slot needs the overflow bytes supplied before it
ConstructSigningPublicKey(kc, data) ==
    LET size == SigningPublicKeySize(kc.spkType)
    IN  IF Len(data) < size
        THEN [key |-> [spkType |-> kc.spkType, data |-> << >>], err |-> ErrKeyTooShort]
        ELSE [key |-> [spkType |-> kc.spkType, data |-> SliceFrom(data, Len(data) - size)],
              err |-> nil]

\* Lease.Date(): the 8 bytes after the gateway hash and the tunnel id
LeaseDate(lease) ==
    Slice(lease, LEASE_HASH_SIZE + LEASE_TUNNEL_ID_SIZE, LEASE_SIZE)

\* a < b for byte slices of one length read as big-endian unsigned numbers
RECURSIVE BytesLess(_, _)
BytesLess(a, b) ==
    IF Len(a) = 0 \/ Len(b) = 0 THEN FALSE
    ELSE IF Head(a) # Head(b) THEN Head(a) < Head(b)
    ELSE BytesLess(Tail(a), Tail(b))

\* a.Time().After(b.Time()): Date is the milliseconds since the epoch
DateAfter(a, b) == BytesLess(b, a)

\* a.Time().Before(b.Time())
DateBefore(a, b) == BytesLess(a, b)

----------------------------------------------------------------------------
(* lease_set.LeaseSet *)

LEASE_SET_PUBKEY_SIZE == 256
LEASE_SET_SPK_SIZE == 128
LEASE_SET_SIG_SIZE == 40

ErrLeaseCountShort == "error parsing lease count: not enough data"
ErrLeaseCountMany == "invalid lease set: more than 16 leases"
ErrLeasesMissing == "error parsing lease set: some leases missing"
ErrLeaseSetSigShort == "error parsing signature: not enough data"
ErrLeaseSetSpkShort == "error parsing signing public key: not enough data"

ZeroDate == <<0, 0, 0, 0, 0, 0, 0, 0>>
NewestSentinel == <<255, 0, 0, 0, 0, 0, 0, 0>>
OldestSentinel == <<0, 255, 255, 255, 255, 255, 255, 255>>

\* LeaseSet.Destination()
LeaseSetDestination(lease_set) ==
    Only({ IF kac.err # nil
           THEN [destination |-> kac.keys_and_cert, err |-> kac.err]
           ELSE Only({ [destination |-> d.destination, err |-> d.err]
                       : d \in {ReadDestination(KeysAndCertBytes(kac.keys_and_cert))} })
           : kac \in {ReadKeysAndCert(lease_set)} })

\* LeaseSet.LeaseCount()
LeaseSetLeaseCount(lease_set) ==
    Only({ IF kac.err # nil
           THEN [count |-> 0, err |-> kac.err]
           ELSE IF Len(kac.remainder) < LEASE_SET_PUBKEY_SIZE + LEASE_SET_SPK_SIZE + 1
           THEN [count |-> 0, err |-> ErrLeaseCountShort]
           ELSE LET count == IntegerInt(<<kac.remainder[LEASE_SET_PUBKEY_SIZE + LEASE_SET_SPK_SIZE + 1]>>)
                IN  [count |-> count, err |-> IF count > 16 THEN ErrLeaseCountMany ELSE nil]
           : kac \in {ReadKeysAndCert(lease_set)} })

\* the loop of LeaseSet.Leases() from lease i on, with the leases read so far
RECURSIVE LeasesLoop(_, _, _, _, _)
LeasesLoop(lease_set, offset, count, i, leases) ==
    IF ~(i < count)
    THEN [leases |-> leases, err |-> nil]
    ELSE LET start == offset + (i * LEASE_SIZE)
             end == start + LEASE_SIZE
         IN  IF Len(lease_set) < end
             THEN [leases |-> leases, err |-> ErrLeasesMissing]
             ELSE LeasesLoop(lease_set, offset, count, i + 1,
                             Append(leases, Slice(lease_set, start, end)))

\* Leases() that starts at the lease count byte instead of after it
LeaseSetLeasesFromCountByte(lease_set) ==
    Only({ IF d.err # nil
           THEN [leases |-> << >>, err |-> d.err]
           ELSE Only({ IF c.err # nil
                       THEN [leases |-> << >>, err |-> c.err]
                       ELSE LeasesLoop(lease_set, offset, c.count, 0, << >>)
                       : offset \in {Len(DestinationBytes(d.destination)) + LEASE_SET_PUBKEY_SIZE
                                         + LEASE_SET_SPK_SIZE},
                         c \in {LeaseSetLeaseCount(lease_set)} })
           : d \in {LeaseSetDestination(lease_set)} })

\* LeaseSet.Leases()
LeaseSetLeases(lease_set) ==
    Only({ IF d.err # nil
           THEN [leases |-> << >>, err |-> d.err]
           ELSE Only({ IF c.err # nil
                       THEN [leases |-> << >>, err |-> c.err]
                       ELSE LeasesLoop(lease_set, offset, c.count, 0, << >>)
                       : offset \in {Len(DestinationBytes(d.destination)) + LEASE_SET_PUBKEY_SIZE
                                         + LEASE_SET_SPK_SIZE + 1},
                         c \in {LeaseSetLeaseCount(lease_set)} })
           : d \in {LeaseSetDestination(lease_set)} })

\* LeaseSet.Signature()
LeaseSetSignature(lease_set) ==
    Only({ IF d.err # nil
           THEN [signature |-> << >>, err |-> d.err]
           ELSE Only({ IF c.err # nil
                       THEN [signature |-> << >>, err |-> c.err]
                       ELSE LET start == Len(DestinationBytes(d.destination)) + LEASE_SET_PUBKEY_SIZE
                                         + LEASE_SET_SPK_SIZE + 1 + (LEASE_SIZE * c.count)
                                cert == DestinationCertificate(d.destination)
                                end == IF CertificateType(cert) = CERT_KEY
                                       THEN start + SignatureSize(KeyCertificateFromCertificate(cert))
                                       ELSE start + LEASE_SET_SIG_SIZE
                            IN  IF Len(lease_set) < end
                                THEN [signature |-> << >>, err |-> ErrLeaseSetSigShort]
                                ELSE [signature |-> Slice(lease_set, start, end), err |-> nil]
                       : c \in {LeaseSetLeaseCount(lease_set)} })
           : d \in {LeaseSetDestination(lease_set)} })

\* LeaseSet.SigningKey(); spkType DSA_SHA1 is the legacy crypto.DSAPublicKey
LeaseSetSigningKey(lease_set) ==
    Only({ LET noKey == [spkType |-> KEYCERT_SIGN_DSA_SHA1, data |-> << >>]
           IN  IF d.err # nil
               THEN [key |-> noKey, err |-> d.err]
               ELSE LET offset == Len(DestinationBytes(d.destination)) + LEASE_SET_PUBKEY_SIZE
                        cert == DestinationCertificate(d.destination)
                        cert_len == CertificateLength(cert)
                        slot == Slice(lease_set, offset, offset + LEASE_SET_SPK_SIZE)
                        dsa_pk == [spkType |-> KEYCERT_SIGN_DSA_SHA1, data |-> slot]
                    IN  IF Len(lease_set) < offset + LEASE_SET_SPK_SIZE
                        THEN [key |-> noKey, err |-> ErrLeaseSetSpkShort]
                        ELSE IF cert_len = 0
                        THEN [key |-> dsa_pk, err |-> nil]
                        ELSE IF CertificateType(cert) = CERT_KEY
                        THEN ConstructSigningPublicKey(KeyCertificateFromCertificate(cert), slot)
                        ELSE [key |-> dsa_pk, err |-> nil]
           : d \in {LeaseSetDestination(lease_set)} })

\* the fold of NewestExpiration() over the leases from lease i on
RECURSIVE NewestFold(_, _, _)
NewestFold(leases, i, newest) ==
    IF i > Len(leases) THEN newest
    ELSE LET date == LeaseDate(leases[i])
         IN  NewestFold(leases, i + 1, IF DateAfter(date, newest) THEN date ELSE newest)

\* LeaseSet.NewestExpiration()
LeaseSetNewestExpiration(lease_set) ==
    Only({ IF l.err # nil
           THEN [date |-> ZeroDate, err |-> l.err]
           ELSE [date |-> NewestFold(l.leases, 1, NewestSentinel), err |-> nil]
           : l \in {LeaseSetLeases(lease_set)} })

\* the fold of OldestExpiration() that keeps the later date
RECURSIVE OldestFoldKeepsLater(_, _, _)
OldestFoldKeepsLater(leases, i, earliest) ==
    IF i > Len(leases) THEN earliest
    ELSE LET date == LeaseDate(leases[i])
         IN  OldestFoldKeepsLater(leases, i + 1,
                                  IF DateAfter(date, earliest) THEN date ELSE earliest)

\* the fold of OldestExpiration() over the leases from lease i on
RECURSIVE OldestFold(_, _, _)
OldestFold(leases, i, earliest) ==
    IF i > Len(leases) THEN earliest
    ELSE LET date == LeaseDate(leases[i])
         IN  OldestFold(leases, i + 1, IF DateBefore(date, earliest) THEN date ELSE earliest)

\* LeaseSet.OldestExpiration()
LeaseSetOldestExpiration(lease_set) ==
    Only({ IF l.err # nil
           THEN [date |-> ZeroDate, err |-> l.err]
           ELSE [date |-> OldestFold(l.leases, 1, OldestSentinel), err |-> nil]
           : l \in {LeaseSetLeases(lease_set)} })

----------------------------------------------------------------------------
(* The calls on a LeaseSet *)

\* most leases of a lease set whose end dates are chosen freely
MaxDatedLeases == 2

\* end dates: 1 ms, a date in 2024, the two sentinels, and dates above them
DateVals ==
    { <<0, 0, 0, 0, 0, 0, 0, 1>>,
      <<0, 0, 1, 147, 0, 0, 0, 0>>,
      <<0, 255, 255, 255, 255, 255, 255, 255>>,
      <<1, 0, 0, 0, 0, 0, 0, 0>>,
      <<255, 0, 0, 0, 0, 0, 0, 0>>,
      <<255, 0, 0, 0, 0, 0, 0, 1>> }

\* lease counts at and above the limit of 16, with dates in 2024
BigCounts == {16, 17}

\* signing types of the KEY certificates: DSA_SHA1, P521, Ed25519
KeySigTypes == {KEYCERT_SIGN_DSA_SHA1, KEYCERT_SIGN_P521, KEYCERT_SIGN_ED25519}

\* the certificates of the Destinations: NULL, HASHCASH with a payload, KEY
DestCerts ==
    { <<CERT_NULL, 0, 0>>, <<CERT_HASHCASH, 0, 2, 7, 7>> }
    \cup { <<CERT_KEY, 0, 4, 0, t, 0, 0>> : t \in KeySigTypes }

\* the end dates of the leases of one lease set, in wire order
DateLists ==
    UNION { [1..k -> DateVals] : k \in 0..MaxDatedLeases }
    \cup { [i \in 1..n |-> <<0, 0, 1, 147, 0, 0, 0, i>>] : n \in BigCounts }

\* a Destination (or RouterIdentity) with the certificate cert
KeysAndCertWire(cert) ==
    Ramp(1, KEYS_AND_CERT_PUBKEY_SIZE) \o Ramp(2, KEYS_AND_CERT_SPK_SIZE) \o cert

RECURSIVE LeasesWire(_, _)
LeasesWire(dates, i) ==
    IF i > Len(dates) THEN << >>
    ELSE Ramp(10 + i, LEASE_HASH_SIZE + LEASE_TUNNEL_ID_SIZE) \o dates[i] \o LeasesWire(dates, i + 1)

\* a lease set: destination, keys, count, leases and 140 bytes for the signature
LeaseSetWire(cert, dates) ==
    KeysAndCertWire(cert) \o Ramp(3, LEASE_SET_PUBKEY_SIZE) \o Ramp(4, LEASE_SET_SPK_SIZE)
        \o <<Len(dates)>> \o LeasesWire(dates, 1) \o Ramp(5, 140)

\* the lengths a lease set is cut to: around the end of each of its parts
LeaseSetCuts(cert, dates) ==
    LET D == KEYS_AND_CERT_DATA_SIZE + Len(cert)
        S == D + 385 + LEASE_SIZE * Len(dates)
    IN  { KEYS_AND_CERT_MIN_SIZE - 1, D - 1, D, D + 256, D + 383, D + 384, D + 385 }
        \cup { S - LEASE_SIZE, S - 1, S, S + 39, S + 40, S + 63, S + 64, S + 131, S + 132, S + 135 }

LeaseSetInputs ==
    UNION { { SubSeq(LeaseSetWire(cert, dates), 1, cut) : cut \in LeaseSetCuts(cert, dates) } :
            cert \in DestCerts, dates \in DateLists }

InitLS == \E input \in LeaseSetInputs : Start(input)

\* the part of a step every call on a LeaseSet shares
LeaseSetCall(name, result, error) ==
    /\ pc = "start"
    /\ ret' = result
    /\ err' = error
    /\ pc' = name
    /\ prev' = pc
    /\ origin' = [origin EXCEPT !.op = name]
    /\ UNCHANGED <<arg, certificate, wire, remainder, str, sdata>>

\* count, err = LeaseSet(arg).LeaseCount()
CallLeaseCount ==
    LET r == LeaseSetLeaseCount(arg)
    IN  LeaseSetCall("LeaseCount", [count |-> r.count], r.err)

\* leases, err = LeaseSet(arg).Leases()
CallLeases ==
    LET r == LeaseSetLeases(arg)
    IN  LeaseSetCall("Leases", [leases |-> r.leases], r.err)

\* signature, err = LeaseSet(arg).Signature()
CallSignature ==
    LET r == LeaseSetSignature(arg)
    IN  LeaseSetCall("Signature", [signature |-> r.signature], r.err)

\* signing_public_key, err = LeaseSet(arg).SigningKey()
CallSigningKey ==
    LET r == LeaseSetSigningKey(arg)
    IN  LeaseSetCall("SigningKey", [key |-> r.key], r.err)

\* newest, err = LeaseSet(arg).NewestExpiration()
CallNewestExpiration ==
    LET r == LeaseSetNewestExpiration(arg)
    IN  LeaseSetCall("NewestExpiration", [date |-> r.date], r.err)

\* earliest, err = LeaseSet(arg).OldestExpiration()
CallOldestExpiration ==
    LET r == LeaseSetOldestExpiration(arg)
    IN  LeaseSetCall("OldestExpiration", [date |-> r.date], r.err)

NextLS ==
    \/ CallLeaseCount
    \/ CallLeases
    \/ CallSignature
    \/ CallSigningKey
    \/ CallNewestExpiration
    \/ CallOldestExpiration

SpecLS == InitLS /\ [][NextLS]_vars

----------------------------------------------------------------------------
(* Properties of LeaseSet, stated on the bytes of the lease set *)

\* the payload length the Destination's certificate declares (bytes 385..386)
LSCertLen(d) == 256 * d[386] + d[387]

\* the Destination can be read: 387 bytes and the certificate's payload
LSDestReadable(d) == Len(d) >= 387 /\ LSCertLen(d) <= Len(d) - 387

\* the length D of the Destination
LSDestLen(d) == 387 + LSCertLen(d)

\* the Destination and the lease count byte can be read
LSCountReadable(d) == LSDestReadable(d) /\ Len(d) >= LSDestLen(d) + 385

\* the lease count byte, at offset D+384
LSCount(d) == d[LSDestLen(d) + 385]

\* the 44 bytes of lease i (from 0), at [D+385+44i, D+385+44(i+1))
LSLease(d, i) == SubSeq(d, LSDestLen(d) + 385 + 44 * i + 1, LSDestLen(d) + 385 + 44 * (i + 1))

\* the end date of lease i: its last 8 bytes
LSLeaseEnd(d, i) == SubSeq(LSLease(d, i), 37, 44)

\* the Destination's certificate is a KEY certificate with a payload
LSHasKeyCert(d) == d[385] = 5 /\ LSCertLen(d) >= 4

\* the signing type of the KEY certificate: payload bytes 0..1
LSSigningType(d) == 256 * d[388] + d[389]

\* signature size by signing type (section 3 of the specification)
TableSignatureSize(t) ==
    CASE t = 0 -> 40 [] t = 1 -> 64 [] t = 2 -> 96 [] t = 3 -> 132 [] t = 4 -> 256
      [] t = 5 -> 384 [] t = 6 -> 512 [] t = 7 -> 64 [] t = 11 -> 64

\* signing key size by signing type (section 3 of the specification)
TableSigningKeySize(t) ==
    CASE t = 0 -> 128 [] t = 1 -> 64 [] t = 2 -> 96 [] t = 3 -> 132 [] t = 4 -> 256
      [] t = 5 -> 384 [] t = 6 -> 512 [] t = 7 -> 32 [] t = 11 -> 32

\* where the signature starts: S = D + 256 + 128 + 1 + 44 * leaseCount
LSSigStart(d) == LSDestLen(d) + 256 + 128 + 1 + 44 * LSCount(d)

\* the width w of the signature
LSSigWidth(d) == IF d[385] = 5 THEN TableSignatureSize(LSSigningType(d)) ELSE 40

\* the lease set holds all the leases its count byte announces
LSLeasesComplete(d) == LSCountReadable(d) /\ Len(d) >= LSDestLen(d) + 385 + 44 * LSCount(d)

\* C14: Signature() returns the bytes [S, S+w) that follow the last lease,
\* and returns an error and no signature iff the lease set is shorter than
\* S+w or the Destination or the lease count cannot be read.
C14_SignatureAfterLastLease ==
    pc = "Signature" =>
        LET complete == LSCountReadable(arg) /\ Len(arg) >= LSSigStart(arg) + LSSigWidth(arg)
        IN  /\ (err # nil /\ ret.signature = << >>) <=> ~complete
            /\ complete =>
                  ret.signature = SubSeq(arg, LSSigStart(arg) + 1, LSSigStart(arg) + LSSigWidth(arg))

\* C15: a lease count n > 16 is a warning and not an abort: LeaseCount()
\* returns n with a warning, Leases() the leases present in the data with
\* the warning, and Signature() the signature with the warning.
C15_ManyLeasesIsWarning ==
    (LSCountReadable(arg) /\ LSCount(arg) > 16) =>
        /\ pc = "LeaseCount" => (ret.count = LSCount(arg) /\ err # nil)
        /\ (pc = "Leases" /\ LSLeasesComplete(arg)) =>
              /\ ret.leases = [i \in 1..LSCount(arg) |-> LSLease(arg, i - 1)]
              /\ err # nil
        /\ (pc = "Signature" /\ Len(arg) >= LSSigStart(arg) + LSSigWidth(arg)) =>
              /\ ret.signature = SubSeq(arg, LSSigStart(arg) + 1, LSSigStart(arg) + LSSigWidth(arg))
              /\ err # nil

LSParsesWithLeases(d) == LSLeasesComplete(d) /\ LSCount(d) >= 1 /\ LSCount(d) <= 16

\* date is the latest of the end dates of the leases
LSIsNewest(d, date) ==
    /\ \E i \in 0..(LSCount(d) - 1) : date = LSLeaseEnd(d, i)
    /\ \A i \in 0..(LSCount(d) - 1) : ~BytesLess(date, LSLeaseEnd(d, i))

\* date is the earliest of the end dates of the leases
LSIsOldest(d, date) ==
    /\ \E i \in 0..(LSCount(d) - 1) : date = LSLeaseEnd(d, i)
    /\ \A i \in 0..(LSCount(d) - 1) : ~BytesLess(LSLeaseEnd(d, i), date)

C19_SigningKeyOfDeclaredWidth ==
    (pc = "SigningKey" /\ LSDestReadable(arg)) =>
        LET D == LSDestLen(arg)
        IN  IF Len(arg) < D + 384
            THEN err # nil
            ELSE /\ err = nil
                 /\ IF LSHasKeyCert(arg)
                    THEN LET size == TableSigningKeySize(LSSigningType(arg))
                         IN  /\ ret.key.spkType = LSSigningType(arg)
                             /\ Len(ret.key.data) = size
                             /\ size > 128 => ret.key.data = SubSeq(arg, D + 384 - size + 1, D + 384)
                    ELSE ret.key = [spkType |-> 0, data |-> SubSeq(arg, D + 257, D + 384)]


----------------------------------------------------------------------------
(* data.Date, data.Mapping, router_identity.RouterIdentity and              *)
(* router_address.RouterAddress, as far as RouterInfo uses them             *)

ErrMappingShort == "mapping: not enough data for the length"
ErrMappingBodyShort == "mapping: declared length exceeds available data"
ErrMappingEquals == "mapping format violation, expected ="
ErrMappingSemicolon == "mapping format violation, expected ;"
ErrAddressOptions == "error parsing router address: options"

\* the literal bytes '=' and ';' of a Mapping entry, and '.'
MAPPING_EQUALS == 61
MAPPING_SEMICOLON == 59
DOT == 46

\* NewDate(data): a Date is an Integer of width 8
NewDate(data) ==
    IF Len(data) < DATE_SIZE
    THEN [date |-> << >>, remainder |-> << >>, err |-> ErrDateShort]
    ELSE [date |-> Slice(data, 0, DATE_SIZE), remainder |-> SliceFrom(data, DATE_SIZE),
          err |-> nil]

\* ReadRouterIdentity(data): a RouterIdentity is a KeysAndCert
ReadRouterIdentity(data) ==
    Only({ [router_identity |-> r.keys_and_cert, remainder |-> r.remainder, err |-> r.err]
           : r \in {ReadKeysAndCert(data)} })

\* the rest of data after a literal byte, which is skipped also when another
\* byte stands in its place
AfterSeparator(data) == IF Len(data) = 0 THEN data ELSE SliceFrom(data, 1)

\* whether data begins with the literal byte sep
BeginsWith(data, sep) == Len(data) > 0 /\ data[1] = sep

\* the entries of a Mapping body: key, '=', value, ';', again and again; every
\* syntactic error is collected and the entries read are kept
RECURSIVE ReadMappingValues(_, _, _)
ReadMappingValues(body, vals, errs) ==
    IF Len(body) = 0
    THEN [vals |-> vals, errs |-> errs]
    ELSE Only({ IF k.err # nil
                THEN [vals |-> vals, errs |-> Append(errs, k.err)]
                ELSE Only({ IF v.err # nil
                            THEN [vals |-> vals,
                                  errs |-> (IF BeginsWith(k.remainder, MAPPING_EQUALS)
                                            THEN errs ELSE Append(errs, ErrMappingEquals))
                                           \o <<v.err>>]
                            ELSE ReadMappingValues(
                                     AfterSeparator(v.remainder),
                                     Append(vals, <<k.str, v.str>>),
                                     errs
                                     \o (IF BeginsWith(k.remainder, MAPPING_EQUALS)
                                         THEN << >> ELSE <<ErrMappingEquals>>)
                                     \o (IF BeginsWith(v.remainder, MAPPING_SEMICOLON)
                                         THEN << >> ELSE <<ErrMappingSemicolon>>))
                            : v \in {ReadI2PString(AfterSeparator(k.remainder))} })
                : k \in {ReadI2PString(body)} })

\* NewMapping(bytes): the 2-byte size, that many body bytes read as entries,
\* and the list of the errors met; ok is FALSE for a nil *Mapping
NewMapping(bytes) ==
    IF Len(bytes) < 2
    THEN [mapping |-> [size |-> << >>, vals |-> << >>], ok |-> FALSE,
          remainder |-> << >>, errs |-> <<ErrMappingShort>>]
    ELSE Only({ LET size == IntegerInt(sz.integer)
                    short == Len(sz.remainder) < size
                    body == IF short THEN sz.remainder ELSE Slice(sz.remainder, 0, size)
                IN  Only({ [mapping |-> [size |-> sz.integer, vals |-> m.vals], ok |-> TRUE,
                            remainder |-> IF short THEN << >> ELSE SliceFrom(sz.remainder, size),
                            errs |-> IF short THEN <<ErrMappingBodyShort>> \o m.errs ELSE m.errs]
                           : m \in {ReadMappingValues(body, << >>, << >>)} })
                : sz \in {NewInteger(bytes, 2)} })

\* MappingValues.Get(key): the payload of the first value whose key is key,
\* and no bytes when there is none
RECURSIVE MappingValuesGet(_, _, _)
MappingValuesGet(vals, key, i) ==
    IF i > Len(vals) THEN << >>
    ELSE IF I2PStringData(vals[i][1]).data = I2PStringData(key).data
    THEN I2PStringData(vals[i][2]).data
    ELSE MappingValuesGet(vals, key, i + 1)

\* ReadRouterAddress(data): cost, expiration Date, transport String and
\* options Mapping; the error is that of the first part that reported one
ReadRouterAddress(data) ==
    Only({ Only({ Only({ Only({
        [address |-> [cost |-> cost.integer, expiration |-> expiration.date,
                      transport |-> transport.str, options |-> options.mapping],
         remainder |-> options.remainder,
         err |-> IF cost.err # nil THEN cost.err
                 ELSE IF expiration.err # nil THEN expiration.err
                 ELSE IF transport.err # nil THEN transport.err
                 ELSE IF Len(options.errs) # 0 THEN ErrAddressOptions
                 ELSE nil]
        : options \in {NewMapping(transport.remainder)} })
        : transport \in {ReadI2PString(expiration.remainder)} })
        : expiration \in {NewDate(cost.remainder)} })
        : cost \in {NewInteger(data, 1)} })


----------------------------------------------------------------------------
(* router_info.RouterInfo *)

ROUTER_INFO_MIN_SIZE == 439
MIN_GOOD_VERSION == 58
MAX_GOOD_VERSION == 99

ErrRouterInfoShort == "error parsing router info: not enough data"
ErrAtoiSyntax == "strconv.Atoi: invalid syntax"

\* "router.version" and "caps"
RouterVersionKey == <<114, 111, 117, 116, 101, 114, 46, 118, 101, 114, 115, 105, 111, 110>>
CapsKey == <<99, 97, 112, 115>>

\* the zero value RouterInfo{}; has_options and has_signature are FALSE for
\* the nil pointers
ZeroRouterInfo ==
    [router_identity |-> [keys |-> << >>, cert |-> ZeroCertificate],
     published |-> << >>, size |-> << >>, addresses |-> << >>, peer_size |-> << >>,
     options |-> [size |-> << >>, vals |-> << >>], has_options |-> FALSE,
     signature |-> << >>, has_signature |-> FALSE]

\* what each step of ReadRouterInfo reported: nil, an error, or a list of them
NoSteps ==
    [identity |-> nil, published |-> nil, size |-> nil, addresses |-> << >>,
     peer_size |-> nil, options |-> << >>, signature |-> nil]

\* the loop of ReadRouterInfo over the RouterAddresses from address i on: an
\* address that reports an error is appended like any other and its error
\* stays in the variable err of the loop body
RECURSIVE AddressesLoop(_, _, _, _, _)
AddressesLoop(more, size, i, addresses, errs) ==
    IF ~(i < size)
    THEN [addresses |-> addresses, remainder |-> more, errs |-> errs]
    ELSE Only({ AddressesLoop(a.remainder, size, i + 1, Append(addresses, a.address),
                              Append(errs, a.err))
                : a \in {ReadRouterAddress(more)} })

\* ReadRouterInfo(bytes).  The result err is the last value assigned to the
\* variable err: that of ReadRouterIdentity or of the peer size on the two early
\* returns, and otherwise that of NewSignature, which replaces those of NewDate,
\* of the address count and of NewMapping.  steps is not a result of the code:
\* it keeps what each step reported.
ReadRouterInfo(bytes) ==
    Only({ IF id.err # nil
           THEN [info |-> [ZeroRouterInfo EXCEPT !.router_identity = id.router_identity],
                 remainder |-> id.remainder, err |-> ErrRouterInfoShort,
                 steps |-> [NoSteps EXCEPT !.identity = id.err]]
           ELSE Only({ Only({ Only({ Only({
               LET read == [ZeroRouterInfo EXCEPT !.router_identity = id.router_identity,
                                                  !.published = d.date,
                                                  !.size = sz.integer,
                                                  !.addresses = a.addresses,
                                                  !.peer_size = ps.integer]
                   reported == [NoSteps EXCEPT !.published = d.err, !.size = sz.err,
                                               !.addresses = a.errs,
                                               !.peer_size = ps.err]
               IN  IF ps.err # nil
                   THEN [info |-> read, remainder |-> ps.remainder, err |-> ps.err,
                         steps |-> reported]
                   ELSE Only({ Only({
                       [info |-> [read EXCEPT !.options = m.mapping, !.has_options = m.ok,
                                              !.signature = sig.signature,
                                              !.has_signature = sig.ok],
                        remainder |-> sig.remainder,
                        err |-> IF sig.err # nil THEN ErrRouterInfoShort ELSE nil,
                        steps |-> [reported EXCEPT !.options = m.errs,
                                                   !.signature = sig.err]]
                       : sig \in {NewSignature(m.remainder)} })
                       : m \in {NewMapping(ps.remainder)} })
               : ps \in {NewInteger(a.remainder, 1)} })
               : a \in {AddressesLoop(sz.remainder, IntegerInt(sz.integer), 0, << >>, << >>)} })
               : sz \in {NewInteger(d.remainder, 1)} })
               : d \in {NewDate(id.remainder)} })
           : id \in {ReadRouterIdentity(bytes)} })

\* KeyCertificate.Data() of the KeyCertificate made of the certificate cert:
\* the payload bytes of the certificate
KeyCertificateData(cert) == CertificateData(cert)

\* HashData(data): the SHA-256 digest of data, kept as the bytes it is the
\* digest of; two digests are equal exactly when their inputs are
HashData(data) == [sha256_of |-> data]

\* RouterInfo.IdentHash()
IdentHash(info) ==
    HashData(KeyCertificateData(info.router_identity.cert))

\* RouterInfo.RouterVersion(): the value of the option "router.version"
RouterVersion(info) ==
    Only({ IF key.err # nil THEN << >> ELSE MappingValuesGet(info.options.vals, key.str, 1)
           : key \in {ToI2PString(RouterVersionKey)} })

\* strings.Split(s, sep) for a separator of one byte
RECURSIVE Split(_, _)
Split(s, sep) ==
    IF \A i \in 1..Len(s) : s[i] # sep
    THEN <<s>>
    ELSE LET at == CHOOSE i \in 1..Len(s) : s[i] = sep /\ \A j \in 1..(i - 1) : s[j] # sep
         IN  <<SubSeq(s, 1, at - 1)>> \o Split(SubSeq(s, at + 1, Len(s)), sep)

\* the number that the decimal digits of s spell: n = n*10 + digit
RECURSIVE DigitsValue(_)
DigitsValue(s) ==
    IF Len(s) = 0 THEN 0 ELSE 10 * DigitsValue(SubSeq(s, 1, Len(s) - 1)) + (s[Len(s)] - 48)

\* strconv.Atoi(s): an optional sign '+' or '-' and one or more decimal
\* digits; anything else gives 0 and an error
Atoi(s) ==
    LET signed == Len(s) > 0 /\ s[1] \in {43, 45}
        digits == IF signed THEN SliceFrom(s, 1) ELSE s
    IN  IF Len(digits) = 0 \/ \E i \in 1..Len(digits) : digits[i] < 48 \/ digits[i] > 57
        THEN [val |-> 0, err |-> ErrAtoiSyntax]
        ELSE [val |-> IF signed /\ s[1] = 45 THEN 0 - DigitsValue(digits)
                      ELSE DigitsValue(digits),
              err |-> nil]

\* RouterInfo.GoodVersion()
GoodVersion(info) ==
    Only({ LET v == Split(version, DOT)
           IN  IF Len(v) # 3
               THEN FALSE
               ELSE IF v[1] = <<48>> /\ v[2] = <<57>>
               THEN LET val == Atoi(v[3]).val
                    IN  val >= MIN_GOOD_VERSION /\ val <= MAX_GOOD_VERSION
               ELSE FALSE
           : version \in {RouterVersion(info)} })


\* RouterInfo.RouterCapabilities(): the value of the option "caps"
RouterCapabilities(info) ==
    Only({ IF key.err # nil THEN << >> ELSE MappingValuesGet(info.options.vals, key.str, 1)
           : key \in {ToI2PString(CapsKey)} })

\* strings.Contains(s, substr) for a substr of one byte
Contains(s, c) == \E i \in 1..Len(s) : s[i] = c

\* RouterInfo.UnCongested(): none of "K", "G", "E" in the capabilities
UnCongested(info) ==
    Only({ IF Contains(caps, 75) THEN FALSE
           ELSE IF Contains(caps, 71) THEN FALSE
           ELSE IF Contains(caps, 69) THEN FALSE
           ELSE TRUE
           : caps \in {RouterCapabilities(info)} })

\* Reachable() that does not look for "U"
ReachableIgnoresU(info) ==
    Only({ Contains(caps, 82) : caps \in {RouterCapabilities(info)} })

\* RouterInfo.Reachable(): "R" and no "U" in the capabilities
Reachable(info) ==
    Only({ IF Contains(caps, 85) THEN FALSE ELSE Contains(caps, 82)
           : caps \in {RouterCapabilities(info)} })

----------------------------------------------------------------------------
(* The calls on a RouterInfo *)

\* most dot-separated fields of a version string built from a few fields
MaxVersionFields == 4

\* fields of version strings: "0" "9" "1" "57" "58" "99" "100" "058" "+58"
\* "-58" "5x" and the empty field
FieldVals ==
    { <<48>>, <<57>>, <<49>>, <<53, 55>>, <<53, 56>>, <<57, 57>>, <<49, 48, 48>>,
      <<48, 53, 56>>, <<43, 53, 56>>, <<45, 53, 56>>, <<53, 120>>, << >> }

\* "0" "9" "58"
FewFields == { <<48>>, <<57>>, <<53, 56>> }

\* the fields from field i on, with a '.' between two of them
RECURSIVE JoinDots(_, _)
JoinDots(fields, i) ==
    IF i > Len(fields) THEN << >>
    ELSE IF i = Len(fields) THEN fields[i]
    ELSE fields[i] \o <<DOT>> \o JoinDots(fields, i + 1)

\* version strings: every three fields, and from no field to MaxVersionFields
\* of the few
VersionStrings ==
    { JoinDots(f, 1) : f \in [1..3 -> FieldVals] }
    \cup { JoinDots(f, 1) : f \in UNION { [1..k -> FewFields] : k \in 0..MaxVersionFields } }

\* the I2PString of data
I2PStringOf(data) == ToI2PString(data).str

\* one entry of a Mapping body, with the byte eq between key and value
MappingEntryWire(key, eq, val) ==
    I2PStringOf(key) \o <<eq>> \o I2PStringOf(val) \o <<MAPPING_SEMICOLON>>

\* a Mapping: the 2-byte size and the body
MappingWire(body) == BigEndian(Len(body), 2) \o body

\* options with caps "R" and the router.version version
OptionsWire(version) ==
    MappingWire(MappingEntryWire(CapsKey, MAPPING_EQUALS, <<82>>)
                \o MappingEntryWire(RouterVersionKey, MAPPING_EQUALS, version))

\* most characters of a capabilities string
MaxCapsLen == 3

\* the characters of capabilities: "K" "G" "E" "U" "R" and "L"
CapsChars == {75, 71, 69, 85, 82, 76}

\* capabilities strings
CapsVals == UNION { [1..k -> CapsChars] : k \in 0..MaxCapsLen }

\* options with the capabilities caps and the router.version 0.9.58
CapsOptionsWire(caps) ==
    MappingWire(MappingEntryWire(RouterVersionKey, MAPPING_EQUALS, <<48, 46, 57, 46, 53, 56>>)
                \o MappingEntryWire(CapsKey, MAPPING_EQUALS, caps))

\* options whose only entry has ':' in the place of '='
MalformedOptionsWire ==
    MappingWire(MappingEntryWire(RouterVersionKey, 58, <<48, 46, 57, 46, 53, 56>>))

\* options: none, caps only, caps and version 0.9.58, and the malformed ones
OptionsVals ==
    { MappingWire(<< >>),
      MappingWire(MappingEntryWire(CapsKey, MAPPING_EQUALS, <<82>>)),
      OptionsWire(<<48, 46, 57, 46, 53, 56>>),
      MalformedOptionsWire }

\* a RouterAddress of cost 5 and transport "SSU" with the options given
RouterAddressWire(options) ==
    <<5>> \o ZeroDate \o I2PStringOf(<<83, 83, 85>>) \o options

\* the addresses of a RouterInfo: none, one, one with malformed options, two
AddressLists ==
    { << >>,
      <<RouterAddressWire(MappingWire(<< >>))>>,
      <<RouterAddressWire(MalformedOptionsWire)>>,
      <<RouterAddressWire(MappingWire(<< >>)), RouterAddressWire(MappingWire(<< >>))>> }

\* the certificates of the RouterIdentity: NULL, KEY with DSA_SHA1, KEY with Ed25519
IdentityCerts ==
    { <<CERT_NULL, 0, 0>>,
      <<CERT_KEY, 0, 4, 0, KEYCERT_SIGN_DSA_SHA1, 0, 0>>,
      <<CERT_KEY, 0, 4, 0, KEYCERT_SIGN_ED25519, 0, 0>> }

RECURSIVE Concat(_, _)
Concat(parts, i) == IF i > Len(parts) THEN << >> ELSE parts[i] \o Concat(parts, i + 1)

\* a router info: identity, published date, addresses, peer size 0, options
\* and 70 bytes for the signature
RouterInfoWire(cert, addresses, options) ==
    KeysAndCertWire(cert) \o <<0, 0, 1, 147, 0, 0, 0, 0>> \o <<Len(addresses)>>
        \o Concat(addresses, 1) \o <<0>> \o options \o Ramp(5, 70)

\* the lengths a router info is cut to: around the end of each of its parts
RouterInfoCuts(cert, addresses, options) ==
    LET I == KEYS_AND_CERT_DATA_SIZE + Len(cert)
        A == I + DATE_SIZE + 1 + Len(Concat(addresses, 1))
        E == A + 1 + Len(options)
    IN  { I - 1, I, I + DATE_SIZE - 1, I + DATE_SIZE, I + DATE_SIZE + 1, A - 1, A, A + 1, A + 2 }
        \cup { E - 1, E, E + 39, E + 40, E + 41, E + 63, E + 64, E + 70 }

\* a router info with the certificate cert, no addresses and version 0.9.58,
\* whose public-key block starts with the byte first
RouterInfoWireWithKeys(first, cert) ==
    Ramp(first, KEYS_AND_CERT_PUBKEY_SIZE)
        \o SliceFrom(RouterInfoWire(cert, << >>, OptionsWire(<<48, 46, 57, 46, 53, 56>>)),
                     KEYS_AND_CERT_PUBKEY_SIZE)

\* first bytes of the public-key blocks that differ from that of RouterInfoWire
OtherKeyBlocks == {9, 77}

RouterInfoInputs ==
    { RouterInfoWire(<<CERT_NULL, 0, 0>>, << >>, OptionsWire(v)) : v \in VersionStrings }
    \cup { RouterInfoWire(<<CERT_NULL, 0, 0>>, << >>, CapsOptionsWire(c)) : c \in CapsVals }
    \cup { RouterInfoWireWithKeys(first, cert) : first \in OtherKeyBlocks, cert \in IdentityCerts }
    \cup UNION { { SubSeq(RouterInfoWire(cert, addresses, options), 1, cut) :
                   cut \in RouterInfoCuts(cert, addresses, options) } :
                 cert \in IdentityCerts, addresses \in AddressLists, options \in OptionsVals }

InitRI == \E input \in RouterInfoInputs : Start(input)

\* info, remainder, err = ReadRouterInfo(arg)
CallReadRouterInfo ==
    /\ pc = "start"
    /\ LET r == ReadRouterInfo(arg)
       IN  /\ ret' = [info |-> r.info, steps |-> r.steps]
           /\ remainder' = r.remainder
           /\ err' = r.err
    /\ pc' = "ReadRouterInfo"
    /\ prev' = pc
    /\ origin' = [origin EXCEPT !.op = "ReadRouterInfo"]
    /\ UNCHANGED <<arg, certificate, wire, str, sdata>>

\* good = info.GoodVersion() on a RouterInfo that was read with its options
CallGoodVersion ==
    /\ pc = "ReadRouterInfo"
    /\ ret.info.has_options
    /\ ret' = [info |-> ret.info, version |-> RouterVersion(ret.info),
               good |-> GoodVersion(ret.info)]
    /\ pc' = "GoodVersion"
    /\ prev' = pc
    /\ origin' = [origin EXCEPT !.op = "GoodVersion"]
    /\ UNCHANGED <<arg, certificate, wire, remainder, err, str, sdata>>

\* uncongested = info.UnCongested() on a RouterInfo that was read with its options
CallUnCongested ==
    /\ pc = "ReadRouterInfo"
    /\ ret.info.has_options
    /\ ret' = [info |-> ret.info, caps |-> RouterCapabilities(ret.info),
               uncongested |-> UnCongested(ret.info)]
    /\ pc' = "UnCongested"
    /\ prev' = pc
    /\ origin' = [origin EXCEPT !.op = "UnCongested"]
    /\ UNCHANGED <<arg, certificate, wire, remainder, err, str, sdata>>

\* reachable = info.Reachable() on a RouterInfo that was read with its options
CallReachable ==
    /\ pc = "ReadRouterInfo"
    /\ ret.info.has_options
    /\ ret' = [info |-> ret.info, caps |-> RouterCapabilities(ret.info),
               reachable |-> Reachable(ret.info)]
    /\ pc' = "Reachable"
    /\ prev' = pc
    /\ origin' = [origin EXCEPT !.op = "Reachable"]
    /\ UNCHANGED <<arg, certificate, wire, remainder, err, str, sdata>>

\* hash = info.IdentHash() on a RouterInfo whose identity was read
CallIdentHash ==
    /\ pc = "ReadRouterInfo"
    /\ ret.steps.identity = nil
    /\ ret' = [info |-> ret.info, hash |-> IdentHash(ret.info)]
    /\ pc' = "IdentHash"
    /\ prev' = pc
    /\ origin' = [origin EXCEPT !.op = "IdentHash"]
    /\ UNCHANGED <<arg, certificate, wire, remainder, err, str, sdata>>

NextRI ==
    \/ CallReadRouterInfo
    \/ CallIdentHash
    \/ CallGoodVersion
    \/ CallUnCongested
    \/ CallReachable

SpecRI == InitRI /\ [][NextRI]_vars


----------------------------------------------------------------------------
(* Properties of RouterInfo *)

\* the identity of the router info d carries a KEY certificate
RIHasKeyCert(d) == Len(d) >= 387 /\ d[385] = 5

\* the signature width that the identity of d asks for: by the signing type of
\* its KEY certificate, and 40 without one
RISigWidth(d) == IF RIHasKeyCert(d) THEN TableSignatureSize(LSSigningType(d)) ELSE 40

\* s is the end of d
IsSuffix(s, d) == Len(s) <= Len(d) /\ s = SubSeq(d, Len(d) - Len(s) + 1, Len(d))

\* C12: ReadRouterInfo reads the trailing Signature with the width given by the
\* signing type of the identity's KeyCertificate (40 without one), and the
\* remainder starts after that many signature bytes: a parse without error
\* ends with a signature of that width, followed by the remainder.
C12_SignatureWidthFromKeyCertificate ==
    (pc = "ReadRouterInfo" /\ err = nil) =>
        /\ ret.info.has_signature
        /\ Len(ret.info.signature) = RISigWidth(arg)
        /\ IsSuffix(ret.info.signature \o remainder, arg)

\* some step of the parse reported an error
StepFailed(steps) ==
    \/ steps.identity # nil
    \/ steps.published # nil
    \/ steps.size # nil
    \/ \E i \in 1..Len(steps.addresses) : steps.addresses[i] # nil
    \/ steps.peer_size # nil
    \/ Len(steps.options) # 0
    \/ steps.signature # nil

\* C13: ReadRouterInfo never masks a failure: when a step of the parse
\* (identity, published date, address count, a router address, peer size,
\* options, signature) reported an error, the error returned is not nil.
C13_NoErrorMasked ==
    (pc = "ReadRouterInfo" /\ StepFailed(ret.steps)) => err # nil

\* s is one or more decimal digits that spell a number from lo to hi
IsNumberIn(s, lo, hi) ==
    /\ Len(s) > 0
    /\ \A i \in 1..Len(s) : s[i] >= 48 /\ s[i] <= 57
    /\ DigitsValue(s) >= lo
    /\ DigitsValue(s) <= hi

\* version is "0.9." followed by a third and last field that is a number from
\* 58 to 99
IsGoodVersionString(version) ==
    /\ Len(version) > 4
    /\ SubSeq(version, 1, 4) = <<48, DOT, 57, DOT>>
    /\ \A i \in 5..Len(version) : version[i] # DOT
    /\ IsNumberIn(SubSeq(version, 5, Len(version)), 58, 99)

\* C20: GoodVersion() is true iff router.version has exactly three fields
\* separated by dots, the first "0", the second "9" and the third the decimal
\* number n with 58 <= n <= 99.
C20_GoodVersionIffInRange ==
    pc = "GoodVersion" => (ret.good <=> IsGoodVersionString(ret.version))


\* the options read have an entry whose key is "caps"
HasCapsEntry(info) ==
    \E i \in 1..Len(info.options.vals) : I2PStringData(info.options.vals[i][1]).data = CapsKey

\* C21: UnCongested() is true iff the value of "caps" has none of K, G, E, and
\* Reachable() is true iff it has R and has no U; without a "caps" entry
\* UnCongested() is true and Reachable() is false.
C21_CapabilityPredicates ==
    /\ pc = "UnCongested" =>
          /\ ret.uncongested <=> (\A i \in 1..Len(ret.caps) : ret.caps[i] \notin {75, 71, 69})
          /\ ~HasCapsEntry(ret.info) => ret.uncongested
    /\ pc = "Reachable" =>
          /\ ret.reachable <=> /\ \E i \in 1..Len(ret.caps) : ret.caps[i] = 82
                               /\ \A i \in 1..Len(ret.caps) : ret.caps[i] # 85
          /\ ~HasCapsEntry(ret.info) => ~ret.reachable

\* Reachable() was called on capabilities that hold both "R" and "U"
C21_Witness ==
    /\ pc = "Reachable"
    /\ ~ret.reachable
    /\ \E i \in 1..Len(ret.caps) : ret.caps[i] = 82
    /\ \E i \in 1..Len(ret.caps) : ret.caps[i] = 85


\* the serialized identity at the start of the router info d: the 256-byte
\* public-key block, the 128-byte signing-key block and the certificate with
\* the payload it declares
RIIdentityBytes(d) == SubSeq(d, 1, 387 + 256 * d[386] + d[387])

\* C22: IdentHash() is the SHA-256 of the serialized RouterIdentity (public-key
\* block, signing-key block and certificate), so that identities that differ
\* in any byte, their key blocks included, are hashed over different inputs.
C22_IdentHashOfIdentity ==
    pc = "IdentHash" => ret.hash = HashData(RIIdentityBytes(arg))


----------------------------------------------------------------------------
(* The framing of every Certificate *)

\* the certificate serialized came from NewCertificate(), from a successful
\* NewCertificateWithType or from a successful ReadCertificate of the input
Obtainable ==
    \/ origin.op = "NewCertificate"
    \/ origin.op = "NewCertificateWithType"
    \/ origin.op = "ReadCertificate" /\ ReadCertificate(origin.data).err = nil

\* d is one kind byte, a 2-byte big-endian length and that many payload
\* bytes, and they are the type, length and payload of the certificate c
Framed(d, c) ==
    /\ Len(d) = 3 + CertificateLength(c)
    /\ d[1] = CertificateType(c)
    /\ 256 * d[2] + d[3] = CertificateLength(c)
    /\ SubSeq(d, 4, Len(d)) = CertificateData(c)

\* C23: the Bytes() of every Certificate from NewCertificate(), a successful
\* NewCertificateWithType or a successful ReadCertificate are 3 + Length()
\* bytes (kind, 2-byte length, Length() payload bytes), and ReadCertificate of
\* them succeeds with an empty remainder and the same type, length and payload.
C23_FramingInvariant ==
    /\ (pc = "Bytes" /\ Obtainable) => Framed(wire, certificate)
    /\ (pc = "ReadCertificate" /\ prev = "Bytes" /\ Obtainable) =>
          /\ err = nil
          /\ remainder = << >>
          /\ Framed(arg, certificate)

====
